---- MODULE Spec2Model ----
(***************************************************************************)
(* A model of juicebox_assembly_converter.py: the conversion run            *)
(*   process() = _read_fasta ; _read_assembly ; _add_breaks ;               *)
(*               ProcessedAssembly()                                        *)
(*   then write_agp ; write_bed ; write_break_report ; write_fasta.         *)
(*                                                                         *)
(* Representation.                                                         *)
(*  - A Python str is a tuple of one-character strings, so that split,     *)
(*    join, replace, the "in" substring test and the < comparison are      *)
(*    computed character by character as CPython computes them.            *)
(*  - A contig length is kept as an integer.  The source keeps it as the   *)
(*    string str(int(tokens[2]) - 1), always the canonical decimal form,   *)
(*    and reads it back with int(); IntToStr gives the string where the    *)
(*    source compares the strings themselves.                              *)
(*  - An output line is a record of its tab-separated columns.             *)
(*  - Python semantics are those of CPython 3 (list.sort for fewer than    *)
(*    64 elements is count_run followed by a binary insertion sort;        *)
(*    comparing an int with None raises TypeError).                        *)
(***************************************************************************)
EXTENDS Integers, Sequences, FiniteSets, TLC

\* A local variable of the source: body applied to the value assigned to it,
\* which is computed once.
Bind(value, body(_)) == body(value)

(***************************************************************************)
(* Python str operations                                                   *)
(***************************************************************************)

\* The characters of the model in code-point order (ASCII).
AsciiOrder ==
  << "+", "-", "0", "1", "2", "3", "4", "5", "6", "7", "8", "9", ":",
     "A", "C", "G", "N", "T", "X", "Y", "_",
     "a", "b", "c", "d", "e", "f", "g", "i", "m", "n", "r", "s", "t", "x" >>

\* Position of a character in code-point order: ord(c) up to a monotone map.
Ord(c) == CHOOSE i \in 1..Len(AsciiOrder) : AsciiOrder[i] = c

\* s1 < s2 on Python str: lexicographic by code point, a proper prefix first.
RECURSIVE StrLess(_, _)
StrLess(s1, s2) ==
  IF s2 = <<>> THEN FALSE
  ELSE IF s1 = <<>> THEN TRUE
  ELSE IF Head(s1) = Head(s2) THEN StrLess(Tail(s1), Tail(s2))
  ELSE Ord(Head(s1)) < Ord(Head(s2))

\* sub occurs in s starting at position i (1-based).
OccursAt(s, sub, i) ==
  /\ i >= 1
  /\ i + Len(sub) - 1 <= Len(s)
  /\ SubSeq(s, i, i + Len(sub) - 1) = sub

\* Python: sub in s
Contains(s, sub) == \E i \in 1..(Len(s) - Len(sub) + 1) : OccursAt(s, sub, i)

\* Python: s.split(sep) for a non-empty sep (leftmost, non-overlapping).
RECURSIVE Split(_, _)
Split(s, sep) ==
  IF Contains(s, sep)
  THEN LET k == CHOOSE i \in 1..(Len(s) - Len(sep) + 1) :
                  /\ OccursAt(s, sep, i)
                  /\ \A j \in 1..(i - 1) : ~OccursAt(s, sep, j)
       IN <<SubSeq(s, 1, k - 1)>> \o Split(SubSeq(s, k + Len(sep), Len(s)), sep)
  ELSE <<s>>

\* Python: sep.join(parts)
RECURSIVE Join(_, _)
Join(parts, sep) ==
  IF parts = <<>> THEN <<>>
  ELSE IF Len(parts) = 1 THEN parts[1]
  ELSE parts[1] \o sep \o Join(Tail(parts), sep)

\* Python: s.replace(old, new) for a non-empty old
Replace(s, old, new) == Join(Split(s, old), new)

\* Python: seq[:-1]
AllButLast(parts) == SubSeq(parts, 1, Len(parts) - 1)

\* Python: s[lo:hi] for 0 <= lo <= hi (a slice is clipped to the string).
PySlice(s, lo, hi) ==
  LET h == IF hi > Len(s) THEN Len(s) ELSE hi
  IN IF lo >= h THEN <<>> ELSE SubSeq(s, lo + 1, h)

Digits == << "0", "1", "2", "3", "4", "5", "6", "7", "8", "9" >>

IsDigit(c) == \E i \in 1..10 : Digits[i] = c

DigitVal(c) == (CHOOSE i \in 1..10 : Digits[i] = c) - 1

\* The value of a string of digits and single underscores between digits.
RECURSIVE DigitsVal(_, _)
DigitsVal(s, acc) ==
  IF s = <<>> THEN acc
  ELSE IF Head(s) = "_" THEN DigitsVal(Tail(s), acc)
  ELSE DigitsVal(Tail(s), 10 * acc + DigitVal(Head(s)))

\* Python int(s) on a token without whitespace: an optional sign, then digits
\* which may be grouped by single underscores; anything else is a ValueError.
ParseInt(s) ==
  LET signed == s # <<>> /\ Head(s) \in {"+", "-"}
      body == IF signed THEN Tail(s) ELSE s
      wellFormed ==
        /\ body # <<>>
        /\ \A i \in 1..Len(body) : IsDigit(body[i]) \/ body[i] = "_"
        /\ IsDigit(body[1])
        /\ IsDigit(body[Len(body)])
        /\ \A i \in 1..(Len(body) - 1) : ~(body[i] = "_" /\ body[i + 1] = "_")
  IN IF wellFormed
     THEN [ok |-> TRUE,
           val |-> IF signed /\ Head(s) = "-" THEN 0 - DigitsVal(body, 0)
                   ELSE DigitsVal(body, 0)]
     ELSE [ok |-> FALSE, val |-> 0]

\* Python str(n) for an integer n
RECURSIVE NatToStr(_)
NatToStr(n) ==
  IF n < 10 THEN <<Digits[n + 1]>>
  ELSE NatToStr(n \div 10) \o <<Digits[(n % 10) + 1]>>

IntToStr(n) == IF n < 0 THEN <<"-">> \o NatToStr(0 - n) ELSE NatToStr(n)

(***************************************************************************)
(* Fragment naming and ordering                                            *)
(***************************************************************************)

SEP == << ":", ":", ":" >>
USEP == << "_", "_", "_" >>
FRAGMENT == << "f", "r", "a", "g", "m", "e", "n", "t" >>
DEBRIS == << "d", "e", "b", "r", "i", "s" >>
\* ':::fragment', '___fragment', 'fragment_'
CFRAG == SEP \o FRAGMENT
UFRAG == USEP \o FRAGMENT
FRAG_ == FRAGMENT \o << "_" >>

\* extract_contig_info(name): the original contig name and the fragment index
\* (isNone for index None); err is the exception int() raises, if any.
extract_contig_info(name) ==
  Bind(Split(name, SEP), LAMBDA frag_fields :
    IF Len(frag_fields) = 1
    THEN [orig |-> frag_fields[1], isNone |-> TRUE, index |-> 0, err |-> "none"]
    ELSE LET fields == IF frag_fields[Len(frag_fields)] = DEBRIS
                       THEN AllButLast(frag_fields) ELSE frag_fields
         IN Bind(ParseInt(Replace(fields[Len(fields)], FRAG_, <<>>)),
                 LAMBDA index :
                   [orig |-> Join(AllButLast(fields), SEP),
                    isNone |-> FALSE,
                    index |-> index.val,
                    err |-> IF index.ok THEN "none" ELSE "ValueError"]))

\* The test at the head of the same-original branch of the comparator.
NoIndexDetected(names1, names2) == names1.isNone \/ names1.isNone

\* cmp_assembly_map_entries(frag1, frag2): r is -1 or 1, or err names the
\* exception raised.  An entry is <<name, length>>.
cmp_assembly_map_entries(frag1, frag2) ==
  Bind(extract_contig_info(frag1[1]), LAMBDA names1 :
  Bind(extract_contig_info(frag2[1]), LAMBDA names2 :
    IF names1.err # "none" THEN [r |-> 0, err |-> names1.err]
    ELSE IF names2.err # "none" THEN [r |-> 0, err |-> names2.err]
    ELSE IF names1.orig # names2.orig
    THEN IF StrLess(names2.orig, names1.orig) THEN [r |-> 1, err |-> "none"]
         ELSE IF StrLess(names1.orig, names2.orig) THEN [r |-> -1, err |-> "none"]
         ELSE [r |-> 0, err |-> "BadContigNameError"]
    ELSE IF NoIndexDetected(names1, names2)
         THEN [r |-> 0, err |-> "BadContigNameError"]
         \* int > None raises TypeError
         ELSE IF names2.isNone THEN [r |-> 0, err |-> "TypeError"]
         ELSE IF names1.index > names2.index THEN [r |-> 1, err |-> "none"]
         ELSE IF names1.index < names2.index THEN [r |-> -1, err |-> "none"]
         ELSE [r |-> 0, err |-> "BadContigNameError"]))

(***************************************************************************)
(* list.sort(key=functools.cmp_to_key(cmp)) on fewer than 64 elements:     *)
(* x < y on the keys calls cmp(x, y) and tests the result < 0.  Positions  *)
(* are 0-based as in listobject.c; a[i + 1] is the C element lo[i].        *)
(***************************************************************************)

\* count_run: the length of the run at the head of a (Len(a) >= 2) and
\* whether it is strictly descending.
RECURSIVE RunLength(_, _, _)
RunLength(a, n, descending) ==
  IF n >= Len(a) THEN [n |-> n, err |-> "none"]
  ELSE Bind(cmp_assembly_map_entries(a[n + 1], a[n]), LAMBDA c :
         IF c.err # "none" THEN [n |-> n, err |-> c.err]
         ELSE IF (c.r < 0) = descending THEN RunLength(a, n + 1, descending)
         ELSE [n |-> n, err |-> "none"])

count_run(a) ==
  Bind(cmp_assembly_map_entries(a[2], a[1]), LAMBDA c :
    IF c.err # "none" THEN [n |-> 1, descending |-> FALSE, err |-> c.err]
    ELSE Bind(RunLength(a, 2, c.r < 0), LAMBDA run :
           [n |-> run.n, descending |-> c.r < 0, err |-> run.err]))

\* reverse_slice on the first n elements
ReverseHead(a, n) ==
  [i \in 1..Len(a) |-> IF i <= n THEN a[n + 1 - i] ELSE a[i]]

\* The binary search of binarysort for the place of pivot in a[l..r).
RECURSIVE BinarySearch(_, _, _, _)
BinarySearch(a, pivot, l, r) ==
  LET p == l + ((r - l) \div 2)
  IN Bind(cmp_assembly_map_entries(pivot, a[p + 1]), LAMBDA c :
       IF c.err # "none" THEN [pos |-> 0, err |-> c.err]
       ELSE LET l2 == IF c.r < 0 THEN l ELSE p + 1
                r2 == IF c.r < 0 THEN p ELSE r
            IN IF l2 < r2 THEN BinarySearch(a, pivot, l2, r2)
               ELSE [pos |-> l2, err |-> "none"])

\* a with the element at 0-based position start moved to position pos <= start
InsertAt(a, start, pos) ==
  [i \in 1..Len(a) |->
     IF i - 1 < pos \/ i - 1 > start THEN a[i]
     ELSE IF i - 1 = pos THEN a[start + 1]
     ELSE a[i - 1]]

\* binarysort: insert the elements from position start on, one by one.
RECURSIVE binarysort(_, _)
binarysort(a, start) ==
  IF start >= Len(a) THEN [list |-> a, err |-> "none"]
  ELSE Bind(BinarySearch(a, a[start + 1], 0, start), LAMBDA found :
         IF found.err # "none" THEN [list |-> a, err |-> found.err]
         ELSE binarysort(InsertAt(a, start, found.pos), start + 1))

\* A _add_breaks that leaves the contig list in declaration order
SortAssemblyMapUnsorted(a) == [list |-> a, err |-> "none"]

\* assembly_map.sort(key=functools.cmp_to_key(cmp_assembly_map_entries)):
\* the list as the sort leaves it, and the exception a comparison raised.
SortAssemblyMap(a) ==
  IF Len(a) < 2 THEN [list |-> a, err |-> "none"]
  ELSE Bind(count_run(a), LAMBDA run :
         IF run.err # "none" THEN [list |-> a, err |-> run.err]
         ELSE binarysort(IF run.descending THEN ReverseHead(a, run.n) ELSE a,
                         run.n))

(***************************************************************************)
(* JuiceboxConverter._read_fasta                                           *)
(* A line of the sequence file is [hdr, text]: a record line '>name ...'   *)
(* (text is the name token) or a line of sequence (text is the stripped    *)
(* line); blank lines are skipped by the source and are not represented.   *)
(***************************************************************************)

\* The key None, under which the source files the sequence of an empty file.
NoneKey == << "None" >>

\* dict assignment d[k] = v
DictSet(d, k, v) == (k :> v) @@ d

EmptyDict == [k \in {} |-> <<>>]

\* The loop of _read_fasta over the remaining lines.
RECURSIVE ReadFastaLines(_, _, _, _)
ReadFastaLines(lines, seqs, active_seq, seq_text) ==
  IF lines = <<>>
  THEN [sequences |-> DictSet(seqs, active_seq, seq_text), err |-> "none"]
  ELSE LET line == Head(lines)
       IN IF line.hdr
          THEN LET flushed == IF active_seq # NoneKey
                              THEN DictSet(seqs, active_seq, seq_text) ELSE seqs
               IN IF line.text \in DOMAIN flushed
                  THEN [sequences |-> flushed, err |-> "InvalidFastaError"]
                  ELSE ReadFastaLines(Tail(lines), DictSet(flushed, line.text, <<>>),
                                      line.text,
                                      IF active_seq # NoneKey THEN <<>> ELSE seq_text)
          ELSE IF active_seq # NoneKey
          THEN ReadFastaLines(Tail(lines), seqs, active_seq, seq_text \o line.text)
          ELSE [sequences |-> seqs, err |-> "InvalidFastaError"]

_read_fasta(lines) == ReadFastaLines(lines, EmptyDict, NoneKey, <<>>)

(***************************************************************************)
(* JuiceboxConverter._read_assembly                                        *)
(* A line of the edit file is [decl, name, index, length, tokens]: a       *)
(* declaration '>name index length' or a grouping line of signed integer   *)
(* tokens.  An assembly_map entry is <<name, length>>, a placement is      *)
(* <<name, length, strand, contig_mode>>.                                  *)
(***************************************************************************)

\* The length stored for a declared length (tokens[2])
StoredLength(declared) == declared - 1

Abs(n) == IF n < 0 THEN 0 - n ELSE n

\* list.remove(x) on a list that contains x: the first occurrence goes.
RemoveFirst(list, x) ==
  LET k == CHOOSE i \in 1..Len(list) :
             list[i] = x /\ \A j \in 1..(i - 1) : list[j] # x
  IN SubSeq(list, 1, k - 1) \o SubSeq(list, k + 1, Len(list))

InList(list, x) == \E i \in 1..Len(list) : list[i] = x

\* contig mode, first grouping line: one scaffold per entry read so far
\* (the entries of assembly_map from position k on).  placed lists, in the
\* order the placements are made, the position in assembly_map of the entry
\* each placement is made from.
RECURSIVE ContigModeScaffolds(_, _, _, _, _)
ContigModeScaffolds(assembly_map, k, scaffolds, unscaffolded, placed) ==
  IF k > Len(assembly_map)
  THEN [scaffolds |-> scaffolds, unscaffolded |-> unscaffolded,
        placed |-> placed, err |-> "none"]
  ELSE LET contig == assembly_map[k]
       IN IF ~InList(unscaffolded, contig[1])
          THEN [scaffolds |-> scaffolds, unscaffolded |-> unscaffolded,
                placed |-> placed, err |-> "ValueError"]
          ELSE ContigModeScaffolds(
                 assembly_map, k + 1,
                 Append(scaffolds, << <<contig[1], contig[2], "+", TRUE>> >>),
                 RemoveFirst(unscaffolded, contig[1]),
                 Append(placed, k))

\* One grouping line outside contig mode: the scaffold built from its tokens.
RECURSIVE GroupScaffold(_, _, _, _, _)
GroupScaffold(tokens, assembly_map, scaffold, unscaffolded, placed) ==
  IF tokens = <<>>
  THEN [scaffold |-> scaffold, unscaffolded |-> unscaffolded,
        placed |-> placed, err |-> "none"]
  ELSE LET contig == Head(tokens)
           index == Abs(contig) - 1
           strand == IF contig > 0 THEN "+" ELSE "-"
           \* assembly_map[index] with Python's negative index
           pos == IF index < 0 THEN Len(assembly_map) + index + 1 ELSE index + 1
       IN IF pos < 1 \/ pos > Len(assembly_map)
          THEN [scaffold |-> scaffold, unscaffolded |-> unscaffolded,
                placed |-> placed, err |-> "IndexError"]
          ELSE IF ~InList(unscaffolded, assembly_map[pos][1])
          THEN [scaffold |-> Append(scaffold,
                               <<assembly_map[pos][1], assembly_map[pos][2],
                                 strand, FALSE>>),
                unscaffolded |-> unscaffolded, placed |-> Append(placed, pos),
                err |-> "ValueError"]
          ELSE GroupScaffold(
                 Tail(tokens), assembly_map,
                 Append(scaffold, <<assembly_map[pos][1], assembly_map[pos][2],
                                    strand, FALSE>>),
                 RemoveFirst(unscaffolded, assembly_map[pos][1]),
                 Append(placed, pos))

\* a < b on two single-placement scaffolds, as list < list on their tuples:
\* by name, then by the length string (strand and flag are equal).
ScaffoldLess(a, b) ==
  IF a[1][1] # b[1][1] THEN StrLess(a[1][1], b[1][1])
  ELSE StrLess(IntToStr(a[1][2]), IntToStr(b[1][2]))

\* scaffolds.sort(): list.sort is stable, so the result is the stable
\* insertion of each element after the elements not greater than it.
RECURSIVE SortScaffolds(_)
SortScaffolds(scaffolds) ==
  IF Len(scaffolds) < 2 THEN scaffolds
  ELSE LET sorted == SortScaffolds(AllButLast(scaffolds))
           x == scaffolds[Len(scaffolds)]
           k == Cardinality({i \in 1..Len(sorted) : ~ScaffoldLess(x, sorted[i])})
           \* sorted is ordered, so the elements not greater than x are a prefix
       IN SubSeq(sorted, 1, k) \o <<x>> \o SubSeq(sorted, k + 1, Len(sorted))

\* A _read_assembly that accepts any declaration index
IndexOutOfSequenceIgnored(index, assembly_map) == FALSE

\* The test of line 199 on a declaration's index
IndexOutOfSequence(index, assembly_map) == index # Len(assembly_map) + 1

\* A _read_assembly that accepts an edit file leaving contigs unplaced
AnyUnscaffoldedIgnored(unscaffolded) == FALSE

\* The test of line 220 on the contigs left unplaced
AnyUnscaffolded(unscaffolded) == Len(unscaffolded) # 0

\* The loop of _read_assembly over the remaining lines.
RECURSIVE ReadAssemblyLines(_, _, _, _, _, _)
ReadAssemblyLines(lines, cm, assembly_map, scaffolds, unscaffolded, placed) ==
  IF lines = <<>>
  THEN [assembly_map |-> assembly_map, scaffolds |-> scaffolds,
        unscaffolded |-> unscaffolded, placed |-> placed, err |-> "none"]
  ELSE LET line == Head(lines)
       IN IF line.decl
          THEN IF IndexOutOfSequence(line.index, assembly_map)
               THEN [assembly_map |-> assembly_map, scaffolds |-> scaffolds,
                     unscaffolded |-> unscaffolded, placed |-> placed,
                     err |-> "MissingFragmentError"]
               ELSE IF line.length = 0
               THEN [assembly_map |-> assembly_map, scaffolds |-> scaffolds,
                     unscaffolded |-> unscaffolded, placed |-> placed,
                     err |-> "ZeroLengthContigError"]
               ELSE ReadAssemblyLines(
                      Tail(lines), cm,
                      Append(assembly_map, <<line.name, StoredLength(line.length)>>),
                      scaffolds, Append(unscaffolded, line.name), placed)
          ELSE IF cm
          THEN Bind(ContigModeScaffolds(assembly_map, 1, scaffolds,
                                        unscaffolded, placed),
                    LAMBDA made :
                      \* break: the rest of the file is not read
                      [assembly_map |-> assembly_map,
                       scaffolds |-> made.scaffolds,
                       unscaffolded |-> made.unscaffolded,
                       placed |-> made.placed, err |-> made.err])
          ELSE Bind(GroupScaffold(line.tokens, assembly_map, <<>>,
                                  unscaffolded, placed),
                    LAMBDA made :
                      IF made.err # "none"
                      THEN [assembly_map |-> assembly_map,
                            scaffolds |-> scaffolds,
                            unscaffolded |-> made.unscaffolded,
                            placed |-> made.placed, err |-> made.err]
                      ELSE ReadAssemblyLines(Tail(lines), cm, assembly_map,
                                             Append(scaffolds, made.scaffold),
                                             made.unscaffolded, made.placed))

_read_assembly(lines, cm) ==
  Bind(ReadAssemblyLines(lines, cm, <<>>, <<>>, <<>>, <<>>), LAMBDA read :
    IF read.err # "none"
    THEN [assembly_map |-> read.assembly_map, scaffolds |-> read.scaffolds,
          placed |-> read.placed, err |-> read.err]
    ELSE IF AnyUnscaffolded(read.unscaffolded)
    THEN [assembly_map |-> read.assembly_map, scaffolds |-> read.scaffolds,
          placed |-> read.placed, err |-> "UnscaffoldedContigError"]
    ELSE [assembly_map |-> read.assembly_map,
          scaffolds |-> IF cm THEN SortScaffolds(read.scaffolds)
                        ELSE read.scaffolds,
          placed |-> read.placed,
          err |-> "none"])

(***************************************************************************)
(* JuiceboxConverter._add_breaks                                           *)
(***************************************************************************)

\* defaultdict(int) lookup
OffsetOf(offsets, k) == IF k \in DOMAIN offsets THEN offsets[k] ELSE 0

\* A _add_breaks that takes no name for a fragment
IsBreakNever(fragment_name, sequences) == FALSE

\* Whether the entry is treated as a fragment to be sliced (line 259).
IsBreak(fragment_name, sequences) ==
  /\ Contains(fragment_name, CFRAG) \/ Contains(fragment_name, UFRAG)
  /\ fragment_name \notin DOMAIN sequences

\* The original contig name inferred from a fragment name (lines 260-263).
InferredOrig(fragment_name) ==
  IF Contains(fragment_name, CFRAG)
  THEN Join(AllButLast(Split(fragment_name, CFRAG)), CFRAG)
  ELSE Join(AllButLast(Split(fragment_name, UFRAG)), UFRAG)

\* The key of the sequence store the fragment is sliced from (lines 260-266);
\* found is FALSE where the source raises ContigNotFoundError.
ResolveOrig(fragment_name, sequences) ==
  Bind(InferredOrig(fragment_name), LAMBDA first :
  Bind(IF first \notin DOMAIN sequences
       THEN Replace(fragment_name, SEP, USEP) ELSE first, LAMBDA second :
    [orig_contig |-> second, found |-> second \in DOMAIN sequences]))

\* A _add_breaks that skips one base after every fragment
AdvanceOffsetSkipping(offset, fragment_size) == offset + fragment_size + 1

\* The offset after a fragment of fragment_size was sliced at offset (line 270).
AdvanceOffset(offset, fragment_size) == offset + fragment_size

\* The diagnostic of lines 271-273, reached when the slice is not of the
\* stored length: its format string names the replacement fields {3} and {4}
\* and is given four arguments, so str.format raises IndexError.
LengthDiagnostic(fragment_size, piece) ==
  IF fragment_size # Len(piece) THEN "IndexError" ELSE "none"

\* The loop of _add_breaks over the sorted list.  slices records, for each
\* fragment sliced, the key and offset it was sliced at.
RECURSIVE AddBreaksLoop(_, _, _, _, _)
AddBreaksLoop(todo, sequences, new_sequences, sequence_offsets, slices) ==
  IF todo = <<>>
  THEN [new_sequences |-> new_sequences, slices |-> slices, err |-> "none"]
  ELSE LET fragment == Head(todo)
           fragment_name == fragment[1]
           fragment_size == fragment[2]
       IN IF IsBreak(fragment_name, sequences)
          THEN Bind(ResolveOrig(fragment_name, sequences), LAMBDA res :
               Bind(OffsetOf(sequence_offsets, res.orig_contig), LAMBDA offset :
               Bind(IF res.found
                    THEN PySlice(sequences[res.orig_contig], offset,
                                 offset + fragment_size)
                    ELSE <<>>, LAMBDA piece :
                 IF ~res.found
                 THEN [new_sequences |-> new_sequences, slices |-> slices,
                       err |-> "ContigNotFoundError"]
                 ELSE IF LengthDiagnostic(fragment_size, piece) # "none"
                 THEN [new_sequences |->
                         DictSet(new_sequences, fragment_name, piece),
                       slices |->
                         DictSet(slices, fragment_name,
                                 [orig |-> res.orig_contig, offset |-> offset]),
                       err |-> LengthDiagnostic(fragment_size, piece)]
                 ELSE AddBreaksLoop(
                        Tail(todo), sequences,
                        DictSet(new_sequences, fragment_name, piece),
                        DictSet(sequence_offsets, res.orig_contig,
                                AdvanceOffset(offset, fragment_size)),
                        DictSet(slices, fragment_name,
                                [orig |-> res.orig_contig,
                                 offset |-> offset])))))
          ELSE IF fragment_name \notin DOMAIN sequences
          THEN [new_sequences |-> new_sequences, slices |-> slices,
                err |-> "KeyError"]
          ELSE AddBreaksLoop(Tail(todo), sequences,
                             DictSet(new_sequences, fragment_name,
                                     sequences[fragment_name]),
                             sequence_offsets, slices)

\* _add_breaks(sequences, assembly_map): the new store, and assembly_map as
\* the in-place sort leaves it.
_add_breaks(sequences, assembly_map) ==
  Bind(SortAssemblyMap(assembly_map), LAMBDA sorted :
    IF sorted.err # "none"
    THEN [new_sequences |-> EmptyDict, assembly_map |-> sorted.list,
          slices |-> EmptyDict, err |-> sorted.err]
    ELSE Bind(AddBreaksLoop(sorted.list, sequences, EmptyDict, EmptyDict,
                            EmptyDict),
              LAMBDA done :
                [new_sequences |-> done.new_sequences,
                 assembly_map |-> sorted.list,
                 slices |-> done.slices, err |-> done.err]))

(***************************************************************************)
(* ProcessedAssembly                                                       *)
(* A scaffold name is a record: kind "contig" with the text of the name,   *)
(* kind "Chromosome" with its index, or kind "PGA_scaffold" with index,    *)
(* contig count and length.  The two fixed comment lines at the head of    *)
(* the AGP and BED outputs are not represented.                            *)
(***************************************************************************)

\* self.gap_size
gap_size == 100

\* _chunk_sequence's line_len
line_len == 80

\* A complement table that answers every base in upper case
ComplementUpper(x) ==
  CASE x \in {"A", "a"} -> "T" [] x \in {"C", "c"} -> "G"
    [] x \in {"G", "g"} -> "C" [] x \in {"T", "t"} -> "A"
    [] x \in {"N", "n"} -> "N"
    [] OTHER -> "KeyError"

\* self.complements[x]; "KeyError" for a character that is not a key
Complement(x) ==
  CASE x = "A" -> "T" [] x = "C" -> "G" [] x = "G" -> "C" [] x = "T" -> "A"
    [] x = "a" -> "t" [] x = "c" -> "g" [] x = "g" -> "c" [] x = "t" -> "a"
    [] x = "N" -> "N" [] x = "n" -> "n"
    [] OTHER -> "KeyError"

\* _reverse_complement(sequence)
_reverse_complement(sequence) ==
  LET n == Len(sequence)
  IN IF \E i \in 1..n : Complement(sequence[i]) = "KeyError"
     THEN [seq |-> <<>>, err |-> "KeyError"]
     ELSE [seq |-> [i \in 1..n |-> Complement(sequence[n + 1 - i])],
           err |-> "none"]

\* A gap after every contig, the last included
NotLastAlways(contig, scaffold) == TRUE

\* contig != scaffold[-1]: the tuples are compared by value
NotLast(contig, scaffold) == contig # scaffold[Len(scaffold)]

ContigStyleName(scaffold) ==
  [kind |-> "contig", text |-> Replace(scaffold[1][1], SEP, USEP),
   index |-> 0, count |-> 0, length |-> 0]

\* The scaffold_length loop of _make_scaffold_name
RECURSIVE ScaffoldLength(_, _, _)
ScaffoldLength(scaffold, k, acc) ==
  IF k > Len(scaffold) THEN acc
  ELSE ScaffoldLength(scaffold, k + 1,
         acc + scaffold[k][2]
             + (IF NotLast(scaffold[k], scaffold) THEN gap_size ELSE 0))

_make_scaffold_name(index, scaffold, cm, simple) ==
  IF cm THEN ContigStyleName(scaffold)
  ELSE IF simple
  THEN IF Len(scaffold) > 1
       THEN [kind |-> "Chromosome", text |-> <<>>, index |-> index,
             count |-> 0, length |-> 0]
       ELSE ContigStyleName(scaffold)
  ELSE [kind |-> "PGA_scaffold", text |-> <<>>, index |-> index,
        count |-> Len(scaffold), length |-> ScaffoldLength(scaffold, 1, 0)]

\* n repetitions of the character c
Repeat(c, n) == [i \in 1..n |-> c]

\* _chunk_sequence(sequence): the lines, without their newline
RECURSIVE _chunk_sequence(_)
_chunk_sequence(sequence) ==
  IF Len(sequence) > line_len
  THEN <<SubSeq(sequence, 1, line_len)>>
         \o _chunk_sequence(SubSeq(sequence, line_len + 1, Len(sequence)))
  ELSE IF Len(sequence) > 0 THEN <<sequence>>
  ELSE <<>>

\* The sequence of one scaffold in fasta(): its contigs, reverse-complemented
\* on strand '-', with gap_size 'n' after every contig that is not the last.
RECURSIVE ScaffoldSequence(_, _, _, _)
ScaffoldSequence(scaffold, k, sequences, seq) ==
  IF k > Len(scaffold) THEN [seq |-> seq, err |-> "none"]
  ELSE LET contig == scaffold[k]
           rc == IF contig[3] = "+"
                 THEN [seq |-> sequences[contig[1]], err |-> "none"]
                 ELSE _reverse_complement(sequences[contig[1]])
       IN IF rc.err # "none" THEN [seq |-> seq, err |-> rc.err]
          ELSE ScaffoldSequence(scaffold, k + 1, sequences,
                 seq \o rc.seq
                     \o (IF NotLast(contig, scaffold) THEN Repeat("n", gap_size)
                         ELSE <<>>))

\* fasta(): a header line per scaffold followed by its chunked sequence.
RECURSIVE FastaFrom(_, _, _, _, _)
FastaFrom(index, scaffolds, sequences, cm, simple) ==
  IF index > Len(scaffolds) THEN [lines |-> <<>>, err |-> "none"]
  ELSE LET scaffold == scaffolds[index]
           made == ScaffoldSequence(scaffold, 1, sequences, <<>>)
           rest == FastaFrom(index + 1, scaffolds, sequences, cm, simple)
       IN IF made.err # "none" THEN [lines |-> <<>>, err |-> made.err]
          ELSE IF rest.err # "none" THEN [lines |-> <<>>, err |-> rest.err]
          ELSE [lines |->
                  << [hdr |-> TRUE,
                      name |-> _make_scaffold_name(index, scaffold, cm, simple),
                      text |-> <<>>] >>
                  \o [i \in 1..Len(_chunk_sequence(made.seq)) |->
                        [hdr |-> FALSE,
                         name |-> _make_scaffold_name(index, scaffold, cm, simple),
                         text |-> _chunk_sequence(made.seq)[i]]]
                  \o rest.lines,
                err |-> "none"]

fasta(scaffolds, sequences, cm, simple) ==
  FastaFrom(1, scaffolds, sequences, cm, simple)

\* _make_agp_line
_make_agp_line(scaffold_name, contig, offset_coord, part_number) ==
  [scaffold |-> scaffold_name, start |-> offset_coord,
   end |-> offset_coord + contig[2] - 1, part |-> part_number, type |-> "W",
   contig |-> contig[1], length |-> contig[2], strand |-> contig[3]]

\* A gap row whose end coordinate is one past the gap
AgpGapLineHalfOpen(scaffold_name, offset_coord, part_number) ==
  [scaffold |-> scaffold_name, start |-> offset_coord,
   end |-> offset_coord + gap_size, part |-> part_number, type |-> "U",
   contig |-> <<>>, length |-> gap_size, strand |-> "scaffold"]

\* _make_agp_gap_line
_make_agp_gap_line(scaffold_name, offset_coord, part_number) ==
  [scaffold |-> scaffold_name, start |-> offset_coord,
   end |-> offset_coord + gap_size - 1, part |-> part_number, type |-> "U",
   contig |-> <<>>, length |-> gap_size, strand |-> "scaffold"]

\* The rows of one scaffold in agp()
RECURSIVE AgpRows(_, _, _, _, _)
AgpRows(scaffold_name, scaffold, k, offset_coord, part_number) ==
  IF k > Len(scaffold) THEN <<>>
  ELSE LET contig == scaffold[k]
           line == _make_agp_line(scaffold_name, contig, offset_coord, part_number)
           after == offset_coord + contig[2]
       IN IF NotLast(contig, scaffold)
          THEN << line, _make_agp_gap_line(scaffold_name, after, part_number + 1) >>
                 \o AgpRows(scaffold_name, scaffold, k + 1, after + gap_size,
                            part_number + 2)
          ELSE << line >>
                 \o AgpRows(scaffold_name, scaffold, k + 1, after, part_number + 1)

RECURSIVE AgpFrom(_, _, _, _)
AgpFrom(index, scaffolds, cm, simple) ==
  IF index > Len(scaffolds) THEN <<>>
  ELSE AgpRows(_make_scaffold_name(index, scaffolds[index], cm, simple),
               scaffolds[index], 1, 1, 1)
         \o AgpFrom(index + 1, scaffolds, cm, simple)

agp(scaffolds, cm, simple) == AgpFrom(1, scaffolds, cm, simple)

\* _make_bed_line
_make_bed_line(scaffold_name, contig, offset_coord) ==
  [scaffold |-> scaffold_name, start |-> offset_coord,
   end |-> offset_coord + contig[2], gap |-> FALSE, contig |-> contig[1],
   length |-> contig[2], strand |-> contig[3], gap_number |-> 0]

\* _make_bed_gap_line: the row named pg_gap_<gap_number>
_make_bed_gap_line(scaffold_name, offset_coord, gap_number) ==
  [scaffold |-> scaffold_name, start |-> offset_coord,
   end |-> offset_coord + gap_size, gap |-> TRUE, contig |-> <<>>,
   length |-> 0, strand |-> "", gap_number |-> gap_number]

\* bed() with the gap numbering restarted for each scaffold
RECURSIVE BedRowsRestart(_, _, _, _, _, _, _)
BedRowsRestart(index, scaffolds, k, offset_coord, gap_number, cm, simple) ==
  IF index > Len(scaffolds) THEN <<>>
  ELSE LET scaffold == scaffolds[index]
           scaffold_name == _make_scaffold_name(index, scaffold, cm, simple)
       IN IF k > Len(scaffold)
          THEN BedRowsRestart(index + 1, scaffolds, 1, 0, 1, cm, simple)
          ELSE LET contig == scaffold[k]
                   line == _make_bed_line(scaffold_name, contig, offset_coord)
                   after == offset_coord + contig[2]
               IN IF NotLast(contig, scaffold)
                  THEN << line, _make_bed_gap_line(scaffold_name, after, gap_number) >>
                         \o BedRowsRestart(index, scaffolds, k + 1, after + gap_size,
                                    gap_number + 1, cm, simple)
                  ELSE << line >>
                         \o BedRowsRestart(index, scaffolds, k + 1, after, gap_number,
                                    cm, simple)

\* bed(): scaffolds from index on; k is the next contig of the scaffold,
\* gap_number runs over the whole output.
RECURSIVE BedRows(_, _, _, _, _, _, _)
BedRows(index, scaffolds, k, offset_coord, gap_number, cm, simple) ==
  IF index > Len(scaffolds) THEN <<>>
  ELSE LET scaffold == scaffolds[index]
           scaffold_name == _make_scaffold_name(index, scaffold, cm, simple)
       IN IF k > Len(scaffold)
          THEN BedRows(index + 1, scaffolds, 1, 0, gap_number, cm, simple)
          ELSE LET contig == scaffold[k]
                   line == _make_bed_line(scaffold_name, contig, offset_coord)
                   after == offset_coord + contig[2]
               IN IF NotLast(contig, scaffold)
                  THEN << line, _make_bed_gap_line(scaffold_name, after, gap_number) >>
                         \o BedRows(index, scaffolds, k + 1, after + gap_size,
                                    gap_number + 1, cm, simple)
                  ELSE << line >>
                         \o BedRows(index, scaffolds, k + 1, after, gap_number,
                                    cm, simple)

bed(scaffolds, cm, simple) == BedRows(1, scaffolds, 1, 0, 1, cm, simple)

\* The original contig break_report() files a fragment under (line 531)
ReportOrig(fragment_name) == Split(fragment_name, CFRAG)[1]

\* break_report(): the rows in the order of self.assembly_map, then the
\* summary counts of the first header line.
RECURSIVE BreakRows(_, _)
BreakRows(todo, break_offsets) ==
  IF todo = <<>> THEN <<>>
  ELSE LET fragment_name == Head(todo)[1]
           fragment_size == Head(todo)[2]
       IN IF Contains(fragment_name, CFRAG)
          THEN LET orig_contig == ReportOrig(fragment_name)
                   break_start == OffsetOf(break_offsets, orig_contig)
               IN << [orig_contig |-> orig_contig, fragment |-> fragment_name,
                      break_start |-> break_start,
                      break_end |-> break_start + fragment_size,
                      fragment_len |-> fragment_size] >>
                    \o BreakRows(Tail(todo),
                                 DictSet(break_offsets, orig_contig,
                                         break_start + fragment_size))
          ELSE BreakRows(Tail(todo), break_offsets)

break_report(assembly_map) ==
  LET rows == BreakRows(assembly_map, EmptyDict)
  IN [rows |-> rows,
      break_count |->
        Cardinality({i \in 1..Len(rows) :
                       Contains(rows[i].fragment, SEP \o DEBRIS)}),
      broken_contigs |-> Cardinality({rows[i].orig_contig : i \in 1..Len(rows)})]

(***************************************************************************)
(* Inputs of a run                                                         *)
(***************************************************************************)

\* Bounds of the scaffolding inputs: declarations per edit file, tokens in
\* the grouping section, contigs of a well-formed edit file, and the largest
\* index a declaration carries.
MaxContigs == 2
MaxTokens == 2
MaxPlaced == 4
MaxDeclIndex == 3
\* Bounds of the fragment inputs: declarations per edit file, over the core
\* names and over all names.
MaxFrags == 3
MaxOddFrags == 2

cA == << "a" >>
cB == << "b" >>
cC == << "c" >>
cD == << "d" >>
cE == << "e" >>
cX == << "X" >>
cY == << "Y" >>

HdrLine(name) == [hdr |-> TRUE, text |-> name]
SeqLine(text) == [hdr |-> FALSE, text |-> text]
DeclLine(name, index, length) ==
  [decl |-> TRUE, name |-> name, index |-> index, length |-> length,
   tokens |-> <<>>]
GroupLine(tokens) ==
  [decl |-> FALSE, name |-> <<>>, index |-> 0, length |-> 0, tokens |-> tokens]

\* Sequence files for the scaffolding inputs.  FastaBadChar has a character
\* outside the complement table; the last two are malformed.
FastaGood ==
  << HdrLine(cA), SeqLine(<<"A", "C", "G", "T">>),
     HdrLine(cB), SeqLine(<<"G", "G">>), SeqLine(<<"t", "N">>),
     HdrLine(cC), SeqLine(<<"C", "A", "T", "G">>),
     HdrLine(cD), SeqLine(<<"T", "T", "A", "C">>),
     HdrLine(cE), SeqLine(<<"A", "A", "C", "C">>) >>
FastaBadChar ==
  << HdrLine(cA), SeqLine(<<"A", "C", "G", "T">>),
     HdrLine(cB), SeqLine(<<"G", "X", "T", "C">>) >>
FastaDuplicate ==
  << HdrLine(cA), SeqLine(<<"A", "C", "G", "T">>),
     HdrLine(cA), SeqLine(<<"G", "G", "T", "C">>) >>
FastaNoHeader ==
  << SeqLine(<<"A", "C", "G", "T">>), HdrLine(cA) >>

\* All sequences over S of length lo..hi
SeqsOf(S, lo, hi) == UNION {[1..n -> S] : n \in lo..hi}

\* The declared lengths of the scaffolding inputs (4 is the true length of
\* every sequence of FastaGood).
DeclaredLengths == {0, 1, 4}

\* Declaration sections: n declarations with sequential indices.
DeclSections(names, lengths, lo, hi) ==
  UNION { { [i \in 1..n |-> DeclLine(nm[i], i, ln[i])] :
              nm \in [1..n -> names], ln \in [1..n -> lengths] } :
          n \in lo..hi }

\* Grouping sections: up to MaxTokens signed indices, on one line or on one
\* line each.
GroupSections ==
  UNION { { << GroupLine(t) >> : t \in SeqsOf(-2..2, 1, MaxTokens) },
          { [i \in 1..Len(t) |-> GroupLine(<<t[i]>>)] :
              t \in SeqsOf(-2..2, 2, MaxTokens) },
          { <<>> } }

\* Edit files of the scaffolding inputs: declarations, then groupings.
GeneralAssemblies ==
  { d \o g : d \in DeclSections({cA, cB}, DeclaredLengths, 1, MaxContigs),
             g \in GroupSections }

\* Edit files with a declaration out of sequence, and with a declaration
\* after a grouping line.
OddAssemblies ==
  { << DeclLine(cA, 1, 4), DeclLine(cB, 3, 4), GroupLine(<<1, 2>>) >>,
    << DeclLine(cA, 2, 4), GroupLine(<<1>>) >>,
    << DeclLine(cB, 1, 4), GroupLine(<<1>>), DeclLine(cA, 2, 4),
       GroupLine(<<-2>>) >>,
    << GroupLine(<<1>>), DeclLine(cA, 1, 4) >>,
    <<>> }

\* Edit files whose declarations carry any index in 0..MaxDeclIndex: one
\* declaration and its grouping line; two declarations and theirs; and two
\* declarations each followed by its grouping line.
IndexedAssemblies ==
  { << DeclLine(cA, i, ln), GroupLine(<<1>>) >> :
      i \in 0..MaxDeclIndex, ln \in {0, 4} }
  \cup
  UNION { { << DeclLine(cA, i[1], ln[1]), DeclLine(cB, i[2], ln[2]),
               GroupLine(<<1, -2>>) >>,
            << DeclLine(cA, i[1], ln[1]), GroupLine(<<1>>),
               DeclLine(cB, i[2], ln[2]), GroupLine(<<-2>>) >> } :
          i \in [1..2 -> 0..MaxDeclIndex], ln \in [1..2 -> {0, 4}] }

\* Well-formed edit files: contigs a, b, c, d in this order, each declared
\* with its true length and placed once, in order, with any strands and any
\* split into scaffolds (cut[i] starts a new grouping line before contig i).
RECURSIVE Groupings(_, _, _, _)
Groupings(n, k, sign, cut) ==
  IF k > n THEN <<>>
  ELSE LET rest == Groupings(n, k + 1, sign, cut)
           tok == IF sign[k] THEN k ELSE 0 - k
       IN IF rest = <<>> \/ cut[k + 1]
          THEN << GroupLine(<<tok>>) >> \o rest
          ELSE << GroupLine(<<tok>> \o rest[1].tokens) >> \o Tail(rest)

PlacedNames == << cA, cB, cC, cD, cE >>

WellFormedAssemblies ==
  UNION { { [i \in 1..n |-> DeclLine(PlacedNames[i], i, 4)]
              \o Groupings(n, 1, sign, cut) :
              sign \in [1..n -> BOOLEAN], cut \in [2..(n + 1) -> BOOLEAN] } :
          n \in 3..MaxPlaced }

\* Names of the fragment inputs
Frag(orig, sep, i) == orig \o sep \o FRAG_ \o i

CoreFragNames ==
  { cY,
    Frag(cX, SEP, <<"1">>), Frag(cX, SEP, <<"2">>), Frag(cX, SEP, <<"1", "0">>),
    Frag(cX, USEP, <<"2">>), Frag(cX, USEP, <<"1", "0">>) }

FragNames ==
  CoreFragNames \cup
  { cX,
    Frag(cX, SEP, <<"2">>) \o SEP \o DEBRIS,
    Frag(cX, USEP, <<"1">>),
    Frag(cY, SEP, <<"1">>),
    Frag(cX, SEP, <<"x">>),
    Frag(Frag(cX, SEP, <<"1">>), SEP, <<"1">>) }

\* Sequence files of the fragment inputs: the original contigs; X together
\* with one of its fragments; fragments under the '___' spelling only; and an
\* original contig shorter than its declared fragments.
SeqX == << "A", "C", "G", "T", "T", "G", "C", "A" >>

FragFastaPlain ==
  << HdrLine(cX), SeqLine(SeqX), HdrLine(cY), SeqLine(<<"G", "G", "N">>) >>
FragFastaBoth ==
  << HdrLine(cX), SeqLine(SeqX),
     HdrLine(Frag(cX, SEP, <<"1">>)), SeqLine(<<"N", "N", "C", "T">>) >>
FragFastaUnderscore ==
  << HdrLine(Frag(cX, USEP, <<"1">>)), SeqLine(<<"A", "C", "G", "T">>),
     HdrLine(Frag(cX, USEP, <<"2">>)), SeqLine(<<"T", "T", "G", "C", "A">>) >>
FragFastaShort ==
  << HdrLine(cX), SeqLine(<<"A", "C", "G">>) >>

FragFastas == {FragFastaPlain, FragFastaBoth, FragFastaUnderscore, FragFastaShort}

\* Declared lengths of the fragment inputs
FragLengths == {2, 4}

\* Edit files of the fragment inputs: the declarations in any order, all
\* placed on one scaffold in declaration order.
FragAssemblies ==
  { d \o << GroupLine([i \in 1..Len(d) |-> i]) >> :
      d \in DeclSections(CoreFragNames, FragLengths, 1, MaxFrags)
              \cup DeclSections(FragNames, FragLengths, 1, MaxOddFrags) }

(***************************************************************************)
(* The conversion run (the __main__ block, lines 830-837)                  *)
(***************************************************************************)

VARIABLES
  pc,                \* the step of the run last completed
  err,               \* the exception that ended the run at the next step,
                     \* "none" while the run goes on
  fasta_file,        \* input: the lines of the sequence file
  assembly_file,     \* input: the lines of the edit file
  contig_mode,       \* input: --contig_mode
  simple_chr_names,  \* input: --simple_chr_names
  orig_sequences,    \* the dict returned by _read_fasta
  assembly_map,      \* the list returned by _read_assembly (sorted in place
                     \* by _add_breaks)
  scaffolds,         \* the scaffolds returned by _read_assembly
  placed,            \* for each placement made by _read_assembly, in the
                     \* order made, the declaration position it refers to
  sequences,         \* the dict returned by _add_breaks
  slices,            \* fragment name -> key and offset it was sliced at
  written,           \* the output files written so far
  agp_out,           \* contents of the .agp file
  bed_out,           \* contents of the .bed file
  report_out,        \* contents of the .break_report.txt file
  fasta_out          \* contents of the .fasta file

inputs == << fasta_file, assembly_file, contig_mode, simple_chr_names >>
parsed == << assembly_map, scaffolds, placed >>
broken == << sequences, slices >>
outputs == << written, agp_out, bed_out, report_out, fasta_out >>
vars == << pc, err, fasta_file, assembly_file, contig_mode, simple_chr_names,
           orig_sequences, assembly_map, scaffolds, placed, sequences, slices,
           written, agp_out, bed_out, report_out, fasta_out >>

NoReport == [rows |-> <<>>, break_count |-> 0, broken_contigs |-> 0]

\* The state before the run, for any inputs.
InitRun ==
  /\ pc = "start"
  /\ err = "none"
  /\ orig_sequences = EmptyDict
  /\ assembly_map = <<>>
  /\ scaffolds = <<>>
  /\ placed = <<>>
  /\ sequences = EmptyDict
  /\ slices = EmptyDict
  /\ written = {}
  /\ agp_out = <<>>
  /\ bed_out = <<>>
  /\ report_out = NoReport
  /\ fasta_out = <<>>

InitGeneral ==
  /\ fasta_file \in {FastaGood, FastaBadChar}
  /\ assembly_file \in GeneralAssemblies \cup OddAssemblies \cup IndexedAssemblies
  /\ contig_mode \in BOOLEAN
  /\ simple_chr_names = FALSE

InitMalformedFasta ==
  /\ fasta_file \in {FastaDuplicate, FastaNoHeader, <<>>}
  /\ assembly_file = << DeclLine(cA, 1, 4), GroupLine(<<1>>) >>
  /\ contig_mode \in BOOLEAN
  /\ simple_chr_names = FALSE

InitWellFormed ==
  /\ fasta_file = FastaGood
  /\ assembly_file \in WellFormedAssemblies
  /\ contig_mode \in BOOLEAN
  /\ simple_chr_names \in BOOLEAN

\* Longest sequence of the strand inputs
MaxSeqLen == 3

\* The characters of the strand inputs: the keys of the complement table and
\* two characters that are not keys
StrandAlphabet ==
  {"A", "C", "G", "T", "N", "a", "c", "g", "t", "n", "R", "-"}

\* Sequence files of one record, with every sequence over the alphabet
StrandFastas ==
  { << HdrLine(cA) >> \o (IF s = <<>> THEN <<>> ELSE << SeqLine(s) >>) :
      s \in SeqsOf(StrandAlphabet, 0, MaxSeqLen) }

\* Edit files placing the one contig forward or reversed
StrandAssemblies ==
  { << DeclLine(cA, 1, 4), GroupLine(<< t >>) >> : t \in {1, -1} }

InitStrand ==
  /\ fasta_file \in StrandFastas
  /\ assembly_file \in StrandAssemblies
  /\ contig_mode = FALSE
  /\ simple_chr_names = FALSE

InitFragments ==
  /\ fasta_file \in FragFastas
  /\ assembly_file \in FragAssemblies
  /\ contig_mode = FALSE
  /\ simple_chr_names = FALSE

\* Runs on the scaffolding inputs
Init ==
  /\ InitRun
  /\ InitGeneral \/ InitMalformedFasta \/ InitWellFormed

\* Runs on the fragment inputs
InitFrag ==
  /\ InitRun
  /\ InitFragments

\* Runs on the strand inputs
InitRev ==
  /\ InitRun
  /\ InitStrand

\* The step raised e: nothing catches the exception, so the run ends where
\* it stands.
Fail(e) ==
  /\ pc' = pc
  /\ err' = e

\* The step completed.
Goto(step) ==
  /\ pc' = step
  /\ err' = err

\* process(): sequences = self._read_fasta(fasta)
ReadFasta ==
  /\ pc = "start"
  /\ err = "none"
  /\ \E read \in {_read_fasta(fasta_file)} :
        IF read.err # "none"
        THEN /\ Fail(read.err)
             /\ UNCHANGED orig_sequences
        ELSE /\ Goto("fasta_read")
             /\ orig_sequences' = read.sequences
  /\ UNCHANGED << inputs, parsed, broken, outputs >>

\* process(): assembly_map, scaffolds = self._read_assembly(assembly, ...)
ReadAssembly ==
  /\ pc = "fasta_read"
  /\ err = "none"
  /\ \E read \in {_read_assembly(assembly_file, contig_mode)} :
        IF read.err # "none"
        THEN /\ Fail(read.err)
             /\ UNCHANGED parsed
        ELSE /\ Goto("assembly_read")
             /\ assembly_map' = read.assembly_map
             /\ scaffolds' = read.scaffolds
             /\ placed' = read.placed
  /\ UNCHANGED << inputs, orig_sequences, broken, outputs >>

\* process(): sequences = self._add_breaks(sequences, assembly_map)
AddBreaks ==
  /\ pc = "assembly_read"
  /\ err = "none"
  /\ \E made \in {_add_breaks(orig_sequences, assembly_map)} :
        /\ assembly_map' = made.assembly_map
        /\ IF made.err # "none"
           THEN /\ Fail(made.err)
                /\ UNCHANGED broken
           ELSE /\ Goto("breaks_added")
                /\ sequences' = made.new_sequences
                /\ slices' = made.slices
  /\ UNCHANGED << inputs, orig_sequences, scaffolds, placed, outputs >>

\* process(): return ProcessedAssembly(...); __init__ reads scaffolds[0][0][3]
Construct ==
  /\ pc = "breaks_added"
  /\ err = "none"
  /\ IF scaffolds = <<>> THEN Fail("IndexError") ELSE Goto("constructed")
  /\ UNCHANGED << inputs, orig_sequences, parsed, broken, outputs >>

\* self.contig_mode of the ProcessedAssembly
ModelContigMode == scaffolds[1][1][4]

\* processed_assembly.write_agp(prefix + '.agp')
WriteAgp ==
  /\ pc = "constructed"
  /\ err = "none"
  /\ Goto("agp_written")
  /\ agp_out' = agp(scaffolds, ModelContigMode, simple_chr_names)
  /\ written' = written \cup {"agp"}
  /\ UNCHANGED << inputs, orig_sequences, parsed, broken, bed_out, report_out,
                  fasta_out >>

\* processed_assembly.write_bed(prefix + '.bed')
WriteBed ==
  /\ pc = "agp_written"
  /\ err = "none"
  /\ Goto("bed_written")
  /\ bed_out' = bed(scaffolds, ModelContigMode, simple_chr_names)
  /\ written' = written \cup {"bed"}
  /\ UNCHANGED << inputs, orig_sequences, parsed, broken, agp_out, report_out,
                  fasta_out >>

\* processed_assembly.write_break_report(prefix + '.break_report.txt')
WriteBreakReport ==
  /\ pc = "bed_written"
  /\ err = "none"
  /\ Goto("report_written")
  /\ report_out' = break_report(assembly_map)
  /\ written' = written \cup {"break_report"}
  /\ UNCHANGED << inputs, orig_sequences, parsed, broken, agp_out, bed_out,
                  fasta_out >>

\* processed_assembly.write_fasta(prefix + '.fasta'): self.fasta() is
\* evaluated before the file is opened.
WriteFasta ==
  /\ pc = "report_written"
  /\ err = "none"
  /\ \E made \in {fasta(scaffolds, sequences, ModelContigMode,
                          simple_chr_names)} :
        IF made.err # "none"
        THEN /\ Fail(made.err)
             /\ UNCHANGED << written, fasta_out >>
        ELSE /\ Goto("done")
             /\ fasta_out' = made.lines
             /\ written' = written \cup {"fasta"}
  /\ UNCHANGED << inputs, orig_sequences, parsed, broken, agp_out, bed_out,
                  report_out >>

Next ==
  \/ ReadFasta
  \/ ReadAssembly
  \/ AddBreaks
  \/ Construct
  \/ WriteAgp
  \/ WriteBed
  \/ WriteBreakReport
  \/ WriteFasta

Spec == Init /\ [][Next]_vars

SpecFrag == InitFrag /\ [][Next]_vars

SpecStrand == InitRev /\ [][Next]_vars

(***************************************************************************)
(* Properties                                                              *)
(***************************************************************************)

\* Largest fragment index the properties look for in a name
MaxIndex == 10

\* Where the run stands
ReadAssemblyRan == pc # "start" /\ ~(pc = "fasta_read" /\ err = "none")
ReadAssemblyReturned == pc \notin {"start", "fasta_read"}
AddBreaksRan == ReadAssemblyReturned /\ ~(pc = "assembly_read" /\ err = "none")
AddBreaksReturned == pc \notin {"start", "fasta_read", "assembly_read"}
AgpWritten == "agp" \in written

NameAt(k) == assembly_map[k][1]
StoredAt(k) == assembly_map[k][2]

\* name is X:::fragment_<i>, with or without the debris suffix
ColonFragment(name, X, i) ==
  \/ name = Frag(X, SEP, NatToStr(i))
  \/ name = Frag(X, SEP, NatToStr(i)) \o SEP \o DEBRIS

\* name is X___fragment_<i>
UnderscoreFragment(name, X, i) == name = Frag(X, USEP, NatToStr(i))

HasMarker(name) == Contains(name, CFRAG) \/ Contains(name, UFRAG)

\* The positions of the contig list holding a fragment of the original
\* contig X: a marked name that names X under either way of resolving it.
FragsOf(X) ==
  { k \in 1..Len(assembly_map) :
      /\ HasMarker(NameAt(k))
      /\ InferredOrig(NameAt(k)) = X \/ Replace(NameAt(k), SEP, USEP) = X }

\* The index i of a fragment X:::fragment_<i>
IndexAt(k, X) == CHOOSE i \in 1..MaxIndex : ColonFragment(NameAt(k), X, i)

\* X is in the store and its fragments are all named X:::fragment_<i> with
\* distinct indices.
ColonSplit(X) ==
  /\ X \in DOMAIN orig_sequences
  /\ FragsOf(X) # {}
  /\ \A k \in FragsOf(X) : \E i \in 1..MaxIndex : ColonFragment(NameAt(k), X, i)
  /\ \A j, k \in FragsOf(X) : j # k => IndexAt(j, X) # IndexAt(k, X)

\* None of X's fragments is itself a record of the sequence file.
NoFragmentStored(X) ==
  \A k \in FragsOf(X) : NameAt(k) \notin DOMAIN orig_sequences

RECURSIVE SumStored(_)
SumStored(K) ==
  IF K = {} THEN 0
  ELSE LET k == CHOOSE x \in K : TRUE IN StoredAt(k) + SumStored(K \ {k})

\* The sum of the stored lengths of X's fragments of smaller index
ExpectedOffset(k, X) ==
  SumStored({j \in FragsOf(X) : IndexAt(j, X) < IndexAt(k, X)})

SlicedInIndexOrder(X) ==
  \A k \in FragsOf(X) :
    sequences[NameAt(k)] =
      PySlice(orig_sequences[X], ExpectedOffset(k, X),
              ExpectedOffset(k, X) + StoredAt(k))

\* C1 as claimed: when the fragments of X are all named X:::fragment_<i> with
\* distinct indices, _add_breaks gives the fragment of index i the slice
\* [off_i, off_i + len_i) of X's sequence, off_i being the sum of the stored
\* lengths of the fragments of smaller index, in any declaration order.
C1_AsClaimed ==
  AddBreaksReturned =>
    \A X \in DOMAIN orig_sequences : ColonSplit(X) => SlicedInIndexOrder(X)

\* C1 amended: the same, provided none of X's fragment names is itself a key
\* of the sequence store (such a fragment is copied from the store, and does
\* not advance X's offset).
C1_SlicedInIndexOrder ==
  AddBreaksReturned =>
    \A X \in DOMAIN orig_sequences :
      ColonSplit(X) /\ NoFragmentStored(X) => SlicedInIndexOrder(X)

\* C1's case: fragment_2 declared before fragment_1 with another contig
\* between them, and fragment_2 sliced behind fragment_1.
C1_Witness ==
  /\ pc = "breaks_added"
  /\ fasta_file = FragFastaPlain
  /\ Len(assembly_file) = 4
  /\ assembly_file[1].name = Frag(cX, SEP, <<"2">>)
  /\ assembly_file[2].name = cY
  /\ assembly_file[3].name = Frag(cX, SEP, <<"1">>)
  /\ assembly_file[3].length = 4
  /\ assembly_file[1].length = 4
  /\ ColonSplit(cX) /\ NoFragmentStored(cX)
  /\ sequences[Frag(cX, SEP, <<"2">>)] = << "T", "T", "G" >>

\* The position in the edit file of the declaration entered at position k of
\* the contig list as _add_breaks leaves it (names are distinct where used).
DeclaredLength(name) ==
  LET i == CHOOSE i \in 1..Len(assembly_file) :
             assembly_file[i].decl /\ assembly_file[i].name = name
  IN assembly_file[i].length

RECURSIVE SumDeclared(_)
SumDeclared(K) ==
  IF K = {} THEN 0
  ELSE LET k == CHOOSE x \in K : TRUE
       IN DeclaredLength(NameAt(k)) + SumDeclared(K \ {k})

\* The reconstructed sequences of the fragments at positions K, joined in
\* ascending fragment index.
RECURSIVE JoinedByIndex(_, _)
JoinedByIndex(K, X) ==
  IF K = {} THEN <<>>
  ELSE LET k == CHOOSE x \in K : \A y \in K : IndexAt(x, X) <= IndexAt(y, X)
       IN sequences[NameAt(k)] \o JoinedByIndex(K \ {k}, X)

\* C2: when the declared lengths of X's fragments sum to the length of X's
\* sequence, the reconstructed fragments joined in ascending index order are
\* X's sequence.
C2_RoundTrip ==
  AddBreaksReturned =>
    \A X \in DOMAIN orig_sequences :
      /\ ColonSplit(X)
      /\ NoFragmentStored(X)
      /\ SumDeclared(FragsOf(X)) = Len(orig_sequences[X])
      => JoinedByIndex(FragsOf(X), X) = orig_sequences[X]

\* C3: two sliced fragments of the same original contig, both named in the
\* ':::' spelling or both in the '___' spelling, are processed in ascending
\* numeric index.
C3_BothSpellings ==
  AddBreaksReturned =>
    \A X \in DOMAIN orig_sequences :
      \A j, k \in 1..Len(assembly_map) :
        \A ij, ik \in 1..MaxIndex :
          /\ NameAt(j) \in DOMAIN slices
          /\ NameAt(k) \in DOMAIN slices
          /\ \/ ColonFragment(NameAt(j), X, ij) /\ ColonFragment(NameAt(k), X, ik)
             \/ /\ UnderscoreFragment(NameAt(j), X, ij)
                /\ UnderscoreFragment(NameAt(k), X, ik)
          /\ ij < ik
          => j < k

\* C8: a contig list holding an unsplit name X and a fragment X:::fragment_<i>
\* (every name of the list being well formed) makes _add_breaks fail with
\* BadContigNameError.
C8_UnsplitWithFragment ==
  AddBreaksRan =>
    \A j, k \in 1..Len(assembly_map) :
      /\ ~Contains(NameAt(j), SEP)
      /\ \E i \in 1..MaxIndex : ColonFragment(NameAt(k), NameAt(j), i)
      /\ \A n \in 1..Len(assembly_map) :
           extract_contig_info(NameAt(n)).err = "none"
      => pc = "assembly_read" /\ err = "BadContigNameError"

ReportWritten == "break_report" \in written

ReportMatchesSlices ==
  \A r \in 1..Len(report_out.rows) :
    LET row == report_out.rows[r]
    IN row.fragment \in DOMAIN slices =>
         /\ row.break_start = slices[row.fragment].offset
         /\ row.break_end = row.break_start + row.fragment_len

\* C10 as claimed: for every fragment whose name carries ':::fragment', the
\* break_start of break_report() is the offset at which _add_breaks sliced
\* the fragment, and break_end is break_start plus the stored length.
C10_AsClaimed == ReportWritten => ReportMatchesSlices

\* Every ':::fragment' name of the contig list carries the marker once, is
\* not a key of the sequence store, and names an original contig that is.
MarkedNamesResolve ==
  \A k \in 1..Len(assembly_map) :
    Contains(NameAt(k), CFRAG) =>
      /\ Len(Split(NameAt(k), CFRAG)) = 2
      /\ NameAt(k) \notin DOMAIN orig_sequences
      /\ InferredOrig(NameAt(k)) \in DOMAIN orig_sequences

\* C10 amended: the same, provided every ':::fragment' name of the contig
\* list carries the marker once, is not itself a key of the sequence store,
\* and its original contig is a key of the store.
C10_ReportMatchesSlices ==
  ReportWritten /\ MarkedNamesResolve =>
    /\ ReportMatchesSlices
    /\ \A k \in 1..Len(assembly_map) :
         Contains(NameAt(k), CFRAG) =>
           \E r \in 1..Len(report_out.rows) :
             /\ report_out.rows[r].fragment = NameAt(k)
             /\ report_out.rows[r].fragment_len = StoredAt(k)
             /\ NameAt(k) \in DOMAIN slices

\* C10's case: two fragments of X declared in reverse order, the second
\* reported and sliced past the first.
C10_Witness ==
  /\ ReportWritten
  /\ MarkedNamesResolve
  /\ assembly_file[1].name = Frag(cX, SEP, <<"1", "0">>)
  /\ assembly_file[2].name = Frag(cX, SEP, <<"2">>)
  /\ Len(report_out.rows) = 2
  /\ report_out.rows[2].fragment = Frag(cX, SEP, <<"1", "0">>)
  /\ report_out.rows[2].break_start = 3
  /\ slices[Frag(cX, SEP, <<"1", "0">>)].offset = 3

\* The declared names of the contig list are pairwise distinct.
DistinctNames ==
  \A j, k \in 1..Len(assembly_map) : j # k => NameAt(j) # NameAt(k)

RECURSIVE CountPlacements(_)
CountPlacements(k) ==
  IF k = 0 THEN 0 ELSE Len(scaffolds[k]) + CountPlacements(k - 1)

\* Every declaration position is placed once, and the scaffolds hold as many
\* placements as there are declarations.
EachPlacedOnce ==
  /\ CountPlacements(Len(scaffolds)) = Len(assembly_map)
  /\ Len(placed) = Len(assembly_map)
  /\ \A i \in 1..Len(assembly_map) :
       Cardinality({k \in 1..Len(placed) : placed[k] = i}) = 1

\* C4 as claimed: whenever _read_assembly returns, every entry of the contig
\* list, identified by its declaration position, is in exactly one placement
\* over all scaffolds, and the placements are as many as the declarations.
C4_AsClaimed == ReadAssemblyReturned => EachPlacedOnce

\* C4 amended: the same, provided the declared contig names are pairwise
\* distinct (a grouping token is checked off by name, so a name declared twice
\* lets one declaration be placed twice and the other not at all).
C4_EachPlacedOnce == ReadAssemblyReturned /\ DistinctNames => EachPlacedOnce

\* C4's case: three distinct declarations grouped into two scaffolds, one of
\* them on the '-' strand.
C4_Witness ==
  /\ ReadAssemblyReturned
  /\ ~contig_mode
  /\ DistinctNames
  /\ Len(assembly_map) = 3
  /\ Len(scaffolds) = 2
  /\ \E s \in 1..Len(scaffolds) : \E k \in 1..Len(scaffolds[s]) :
       scaffolds[s][k][3] = "-"

ScaffoldName(s) ==
  _make_scaffold_name(s, scaffolds[s], ModelContigMode, simple_chr_names)

\* The end coordinate of the last contig row the AGP table has for scaffold s
LastContigEnd(s) ==
  LET rows == { i \in 1..Len(agp_out) :
                  agp_out[i].scaffold = ScaffoldName(s) /\ agp_out[i].type = "W" }
      last == CHOOSE i \in rows : \A j \in rows : j <= i
  IN agp_out[last].end

RECURSIVE DeclaredInScaffold(_, _)
DeclaredInScaffold(scaffold, k) ==
  IF k = 0 THEN 0
  ELSE DeclaredLength(scaffold[k][1]) + DeclaredInScaffold(scaffold, k - 1)

\* C5: for every scaffold of k contigs, the end coordinate of its last contig
\* row in the AGP table is the sum of its contigs' lengths as declared in the
\* edit file plus 100 * (k - 1).
C5_EndCoordinate ==
  AgpWritten /\ DistinctNames =>
    \A s \in 1..Len(scaffolds) :
      LastContigEnd(s) =
        DeclaredInScaffold(scaffolds[s], Len(scaffolds[s]))
          + 100 * (Len(scaffolds[s]) - 1)

RECURSIVE CharsEmitted(_, _)
CharsEmitted(s, i) ==
  IF i = 0 THEN 0
  ELSE (IF ~fasta_out[i].hdr /\ fasta_out[i].name = ScaffoldName(s)
        THEN Len(fasta_out[i].text) ELSE 0) + CharsEmitted(s, i - 1)

\* C6: for every scaffold, the end coordinate of its last contig row in the
\* AGP table is the number of sequence characters fasta() emits for it.
C6_AgpMatchesFasta ==
  pc = "done" /\ DistinctNames =>
    \A s \in 1..Len(scaffolds) :
      LastContigEnd(s) = CharsEmitted(s, Len(fasta_out))

\* C7: when a run fails, at whatever step, no output file has been written.
C7_AllOrNothing == err # "none" => written = {}

DeclLines == { i \in 1..Len(assembly_file) : assembly_file[i].decl }

\* Every declaration line of the edit file is valid: its index is its rank
\* among the declarations and its length is not zero.
ValidDeclarations ==
  /\ DeclLines # {}
  /\ \A i \in DeclLines :
       /\ assembly_file[i].index = Cardinality({j \in DeclLines : j <= i})
       /\ assembly_file[i].length > 0

\* C9: in contig mode, for every edit file whose declarations are valid, with
\* any grouping lines or none, _read_assembly returns one single-placement
\* scaffold per declared contig, on strand '+' and flagged derived, in
\* ascending order of contig name.
C9_ContigMode ==
  ReadAssemblyRan /\ contig_mode /\ ValidDeclarations =>
    /\ ReadAssemblyReturned
    /\ Len(scaffolds) = Cardinality(DeclLines)
    /\ \A s \in 1..Len(scaffolds) :
         /\ Len(scaffolds[s]) = 1
         /\ scaffolds[s][1][3] = "+"
         /\ scaffolds[s][1][4] = TRUE
    /\ \A i \in DeclLines : \E s \in 1..Len(scaffolds) :
         scaffolds[s][1][1] = assembly_file[i].name
    /\ \A s, t \in 1..Len(scaffolds) :
         s < t => ~StrLess(scaffolds[t][1][1], scaffolds[s][1][1])

\* Every entry of the contig list is either an unmarked name that is a key of
\* the sequence store, or a fragment X:::fragment_<i> of a key X whose
\* fragments have distinct indices and are not keys themselves; no name is
\* declared twice and no split contig is also listed unsplit.
OnlyLengthsCanFail ==
  /\ DistinctNames
  /\ \A k \in 1..Len(assembly_map) :
       \/ ~HasMarker(NameAt(k)) /\ ~Contains(NameAt(k), SEP)
            /\ NameAt(k) \in DOMAIN orig_sequences
            /\ FragsOf(NameAt(k)) = {}
       \/ \E X \in DOMAIN orig_sequences :
            k \in FragsOf(X) /\ ColonSplit(X) /\ NoFragmentStored(X)

\* The stored lengths of X's fragments exceed the length of X's sequence.
TooShort(X) == SumStored(FragsOf(X)) > Len(orig_sequences[X])

\* C11: when an original sequence is too short for its fragments' stored
\* lengths, _add_breaks raises nothing, gives each fragment the (shorter)
\* slice at the offset advanced by the full stored lengths, and returns a store
\* with an entry for every declared contig.
C11_MismatchNonFatal ==
  /\ AddBreaksRan
  /\ OnlyLengthsCanFail
  /\ \E X \in DOMAIN orig_sequences : ColonSplit(X) /\ TooShort(X)
  => /\ AddBreaksReturned
     /\ \A k \in 1..Len(assembly_map) : NameAt(k) \in DOMAIN sequences
     /\ \A X \in DOMAIN orig_sequences : ColonSplit(X) => SlicedInIndexOrder(X)

\* The entry at position k is a marked name that is not a key of the store.
MarkedNotStored(k) ==
  HasMarker(NameAt(k)) /\ NameAt(k) \notin DOMAIN orig_sequences

\* The inferred original of entry k is no key under either spelling.
OriginalNotStored(k) ==
  /\ InferredOrig(NameAt(k)) \notin DOMAIN orig_sequences
  /\ Replace(InferredOrig(NameAt(k)), SEP, USEP) \notin DOMAIN orig_sequences
  /\ Replace(InferredOrig(NameAt(k)), USEP, SEP) \notin DOMAIN orig_sequences

\* C12 as claimed: a marked name that is no key of the store and whose
\* inferred original contig is no key under either spelling makes _add_breaks
\* fail; no store is returned.
C12_AsClaimed ==
  /\ AddBreaksRan
  /\ \E k \in 1..Len(assembly_map) : MarkedNotStored(k) /\ OriginalNotStored(k)
  => ~AddBreaksReturned

\* Entry k cannot be resolved: neither its inferred original contig nor its
\* own name with ':::' written as '___' is a key of the store.
Unresolvable(k) ==
  /\ MarkedNotStored(k)
  /\ InferredOrig(NameAt(k)) \notin DOMAIN orig_sequences
  /\ Replace(NameAt(k), SEP, USEP) \notin DOMAIN orig_sequences

\* Nothing but an unresolvable name can make _add_breaks fail: every entry is
\* an unmarked key of the store or unresolvable, every name parses, and no two
\* entries share an original contig.
OnlyResolutionCanFail ==
  /\ \A k \in 1..Len(assembly_map) :
       /\ extract_contig_info(NameAt(k)).err = "none"
       /\ \/ ~HasMarker(NameAt(k)) /\ NameAt(k) \in DOMAIN orig_sequences
          \/ Unresolvable(k)
  /\ \A j, k \in 1..Len(assembly_map) :
       j # k => extract_contig_info(NameAt(j)).orig
                  # extract_contig_info(NameAt(k)).orig

\* Every fragment sliced was sliced from the key its name resolves to: its
\* inferred original contig if that is a key, else its own name with ':::'
\* written as '___'.
SlicedFromResolved ==
  \A name \in DOMAIN slices :
    /\ slices[name].orig \in DOMAIN orig_sequences
    /\ slices[name].orig =
         IF InferredOrig(name) \in DOMAIN orig_sequences
         THEN InferredOrig(name) ELSE Replace(name, SEP, USEP)
    /\ \E k \in 1..Len(assembly_map) :
         /\ NameAt(k) = name
         /\ sequences[name] =
              PySlice(orig_sequences[slices[name].orig], slices[name].offset,
                      slices[name].offset + StoredAt(k))

\* C12 amended: a marked name that is no key of the store makes _add_breaks
\* fail, returning no store, when neither its inferred original contig nor the
\* name itself with ':::' written as '___' is a key; the failure is
\* ContigNotFoundError when nothing else is wrong with the list; and a
\* fragment is never sliced from a sequence other than the one so resolved.
C12_Unresolvable ==
  /\ AddBreaksRan /\ (\E k \in 1..Len(assembly_map) : Unresolvable(k))
       => ~AddBreaksReturned
  /\ AddBreaksRan /\ (\E k \in 1..Len(assembly_map) : Unresolvable(k))
       /\ OnlyResolutionCanFail
       => pc = "assembly_read" /\ err = "ContigNotFoundError"
  /\ AddBreaksReturned => SlicedFromResolved

\* C12's case: an unmarked contig of the store listed with a fragment of a
\* contig the store does not hold, and the run stopped by ContigNotFoundError.
C12_Witness ==
  /\ pc = "assembly_read"
  /\ err = "ContigNotFoundError"
  /\ Len(assembly_map) = 2
  /\ OnlyResolutionCanFail
  /\ \E k \in 1..Len(assembly_map) : Unresolvable(k)
  /\ \E k \in 1..Len(assembly_map) : ~HasMarker(NameAt(k))

\* The 1-based position of line i among the declaration lines up to it (for a
\* grouping line, the number of declarations before it).
Rank(i) == Cardinality({j \in DeclLines : j <= i})

\* Line i is a declaration whose index is not its position.
OutOfSequence(i) == i \in DeclLines /\ assembly_file[i].index # Rank(i)

\* A sufficient condition for line j to be read without an error and without
\* ending the loop: a declaration in sequence and of non-zero length; or,
\* outside contig mode, a grouping line whose tokens name declarations
\* already read, none of them placed before.
LinePasses(j) ==
  IF assembly_file[j].decl
  THEN /\ assembly_file[j].index = Rank(j)
       /\ assembly_file[j].length # 0
  ELSE /\ ~contig_mode
       /\ \A t \in 1..Len(assembly_file[j].tokens) :
            LET tok == assembly_file[j].tokens[t]
                pos == IF tok < 0 THEN 0 - tok ELSE tok
            IN /\ pos \in 1..Rank(j)
               /\ \A h \in 1..j : \A u \in 1..Len(assembly_file[h].tokens) :
                    (h # j \/ u # t) /\ ~assembly_file[h].decl =>
                      assembly_file[h].tokens[u] \notin {pos, 0 - pos}

\* Line i is reached by the loop of _read_assembly.
LineRead(i) == \A j \in 1..(i - 1) : LinePasses(j)

\* C13: _read_assembly fails with MissingFragmentError exactly when a
\* declaration line it reads carries an index other than its 1-based position
\* among the declarations read so far; and in a contig list it returns, the
\* entry at position i was declared with index i.
C13_MissingFragment ==
  /\ pc = "fasta_read" /\ err = "MissingFragmentError"
       => \E i \in DeclLines : OutOfSequence(i) /\ LineRead(i)
  /\ ReadAssemblyRan /\ (\E i \in DeclLines : OutOfSequence(i) /\ LineRead(i))
       => pc = "fasta_read" /\ err = "MissingFragmentError"
  /\ pc = "assembly_read" /\ err = "none"
       => \A i \in 1..Len(assembly_map) :
            \E l \in DeclLines :
              /\ Rank(l) = i
              /\ assembly_file[l].index = i
              /\ assembly_file[l].name = NameAt(i)

\* C13's case: a declaration out of sequence after a grouping line, read
\* outside contig mode, stops the run with MissingFragmentError.
C13_Witness ==
  /\ pc = "fasta_read"
  /\ err = "MissingFragmentError"
  /\ \E i \in DeclLines :
       /\ OutOfSequence(i) /\ LineRead(i)
       /\ \E j \in 1..(i - 1) : ~assembly_file[j].decl

\* C14: every entry of a contig list returned by _read_assembly has a stored
\* length greater than 0.
C14_PositiveLength ==
  ReadAssemblyReturned => \A k \in 1..Len(assembly_map) : StoredAt(k) > 0

RECURSIVE StoredInScaffold(_, _)
StoredInScaffold(scaffold, k) ==
  IF k = 0 THEN 0 ELSE scaffold[k][2] + StoredInScaffold(scaffold, k - 1)

RECURSIVE SequenceInScaffold(_, _)
SequenceInScaffold(scaffold, k) ==
  IF k = 0 THEN 0
  ELSE Len(sequences[scaffold[k][1]]) + SequenceInScaffold(scaffold, k - 1)

AgpGapRows(s) ==
  { i \in 1..Len(agp_out) :
      agp_out[i].scaffold = ScaffoldName(s) /\ agp_out[i].type = "U" }

BedGapRows(s) ==
  { i \in 1..Len(bed_out) :
      bed_out[i].scaffold = ScaffoldName(s) /\ bed_out[i].gap }

\* C15: for every scaffold of k placements, the length in its detailed name
\* is the sum of the members' stored lengths plus 100 * (k - 1), and agp(),
\* bed() and fasta() each insert k - 1 gaps of 100 for it: one between each
\* pair of consecutive placements and none after the last.
C15_ScaffoldLength ==
  pc = "done" =>
    \A s \in 1..Len(scaffolds) :
      LET k == Len(scaffolds[s]) IN
      /\ ~ModelContigMode /\ ~simple_chr_names =>
           ScaffoldName(s).length
             = StoredInScaffold(scaffolds[s], k) + gap_size * (k - 1)
      /\ Cardinality(AgpGapRows(s)) = k - 1
      /\ \A i \in AgpGapRows(s) :
           /\ agp_out[i].length = gap_size
           /\ 1 < i /\ i < Len(agp_out)
           /\ agp_out[i - 1].type = "W" /\ agp_out[i + 1].type = "W"
           /\ agp_out[i - 1].scaffold = ScaffoldName(s)
           /\ agp_out[i + 1].scaffold = ScaffoldName(s)
      /\ Cardinality(BedGapRows(s)) = k - 1
      /\ \A i \in BedGapRows(s) :
           /\ bed_out[i].end - bed_out[i].start = gap_size
           /\ 1 < i /\ i < Len(bed_out)
           /\ ~bed_out[i - 1].gap /\ ~bed_out[i + 1].gap
           /\ bed_out[i - 1].scaffold = ScaffoldName(s)
           /\ bed_out[i + 1].scaffold = ScaffoldName(s)
      /\ CharsEmitted(s, Len(fasta_out))
           = SequenceInScaffold(scaffolds[s], k) + gap_size * (k - 1)

\* C15's case: a run that wrote every output has a scaffold of three
\* placements, named in the detailed style.
C15_Witness ==
  /\ pc = "done"
  /\ ~ModelContigMode /\ ~simple_chr_names
  /\ \E s \in 1..Len(scaffolds) :
       /\ Len(scaffolds[s]) = 3
       /\ ScaffoldName(s).length
            = StoredInScaffold(scaffolds[s], 3) + 2 * gap_size
       /\ Cardinality(AgpGapRows(s)) = 2
       /\ Cardinality(BedGapRows(s)) = 2

\* Row i of the AGP table opens a scaffold.
OpensScaffold(i) == i = 1 \/ agp_out[i].scaffold # agp_out[i - 1].scaffold

\* The rows of the AGP table that open a scaffold
AgpBlocks == { i \in 1..Len(agp_out) : OpensScaffold(i) }

\* C16: in the AGP table the rows of each scaffold tile it: its first row
\* starts at 1 with part number 1, every later row starts at the previous
\* row's end + 1 with the next part number, and a gap row of length 100 stands
\* between every two consecutive contig rows and nowhere else.
C16_AgpTiles ==
  AgpWritten =>
    /\ Cardinality(AgpBlocks) = Len(scaffolds)
    /\ \A i \in 1..Len(agp_out) :
         /\ IF OpensScaffold(i)
            THEN /\ agp_out[i].start = 1
                 /\ agp_out[i].part = 1
                 /\ agp_out[i].type = "W"
            ELSE /\ agp_out[i].start = agp_out[i - 1].end + 1
                 /\ agp_out[i].part = agp_out[i - 1].part + 1
                 /\ agp_out[i].type # agp_out[i - 1].type
         /\ agp_out[i].type = "U" =>
              /\ agp_out[i].length = 100
              /\ agp_out[i].end - agp_out[i].start + 1 = 100
              /\ i < Len(agp_out)
              /\ agp_out[i + 1].scaffold = agp_out[i].scaffold

\* C16's case: the AGP table has two scaffolds, the first of three contig rows
\* and two gap rows with part numbers up to 5, the second starting again at
\* part number 1.
C16_Witness ==
  /\ AgpWritten
  /\ Len(scaffolds) >= 2
  /\ Len(scaffolds[1]) = 3
  /\ Len(agp_out) >= 6
  /\ agp_out[5].part = 5
  /\ agp_out[5].scaffold = agp_out[1].scaffold
  /\ agp_out[2].type = "U" /\ agp_out[4].type = "U"
  /\ agp_out[6].part = 1
  /\ agp_out[6].start = 1

\* The gap rows of the BED table among its first i rows
BedGapsUpTo(i) == { j \in 1..i : bed_out[j].gap }

RECURSIVE GapsBetween(_)
GapsBetween(s) ==
  IF s = 0 THEN 0 ELSE (Len(scaffolds[s]) - 1) + GapsBetween(s - 1)

BedWritten == "bed" \in written

\* C17: the gap rows of the BED table, in output order over all scaffolds,
\* carry the numbers 1, 2, ..., G, where G is the total number of gaps between
\* consecutive contigs; the numbering does not restart at a scaffold boundary.
C17_GapNumbers ==
  BedWritten =>
    /\ Cardinality(BedGapsUpTo(Len(bed_out))) = GapsBetween(Len(scaffolds))
    /\ \A i \in BedGapsUpTo(Len(bed_out)) :
         bed_out[i].gap_number = Cardinality(BedGapsUpTo(i))

\* C17's case: the BED table has gap rows in two scaffolds, and the first gap
\* row of the later scaffold continues the numbering of the earlier one.
C17_Witness ==
  /\ BedWritten
  /\ \E i, j \in BedGapsUpTo(Len(bed_out)) :
       /\ i < j
       /\ bed_out[i].scaffold # bed_out[j].scaffold
       /\ bed_out[i].gap_number = 1
       /\ bed_out[j].gap_number = 2

\* The keys of the complement table
Bases == {"A", "C", "G", "T", "N", "a", "c", "g", "t", "n"}

OnlyBases(sequence) == \A i \in 1..Len(sequence) : sequence[i] \in Bases

\* The sequence characters of the first i lines of the fasta output
RECURSIVE EmittedText(_)
EmittedText(i) ==
  IF i = 0 THEN <<>>
  ELSE EmittedText(i - 1)
         \o (IF fasta_out[i].hdr THEN <<>> ELSE fasta_out[i].text)

\* fasta() was called.
FastaRan == pc = "done" \/ (pc = "report_written" /\ err # "none")

\* The one contig of the run is placed on strand '-'.
PlacedReversed ==
  /\ Len(scaffolds) = 1
  /\ Len(scaffolds[1]) = 1
  /\ scaffolds[1][1][3] = "-"

\* C18: for a sequence made only of A, C, G, T, N and their lower-case forms,
\* _reverse_complement returns a sequence that _reverse_complement takes back
\* to the original, case included; for a sequence with any other character it
\* fails and returns nothing.
C18_Involution ==
  FastaRan /\ PlacedReversed =>
    LET sequence == sequences[scaffolds[1][1][1]] IN
    IF OnlyBases(sequence)
    THEN /\ pc = "done"
         /\ _reverse_complement(EmittedText(Len(fasta_out)))
              = [seq |-> sequence, err |-> "none"]
         /\ _reverse_complement(_reverse_complement(sequence).seq).seq = sequence
    ELSE /\ pc = "report_written"
         /\ err = "KeyError"
         /\ fasta_out = <<>>
         /\ _reverse_complement(sequence).err = "KeyError"

\* C18's case: fasta() has reverse-complemented a sequence of three
\* characters that holds both an upper-case and a lower-case base and is not
\* its own reverse complement.
C18_Witness ==
  /\ pc = "done"
  /\ PlacedReversed
  /\ LET sequence == sequences[scaffolds[1][1][1]] IN
       /\ Len(sequence) = 3
       /\ \E i, j \in 1..3 :
            /\ sequence[i] \in {"A", "C", "G", "T", "N"}
            /\ sequence[j] \in {"a", "c", "g", "t", "n"}
       /\ EmittedText(Len(fasta_out)) # sequence
       /\ EmittedText(Len(fasta_out)) = _reverse_complement(sequence).seq

\* C19: once _add_breaks has run, the sequence store is as _read_fasta
\* returned it and the contig list has the entries _read_assembly returned,
\* in the same (declaration) order.
C19_InputsUnchanged ==
  AddBreaksRan =>
    /\ orig_sequences = _read_fasta(fasta_file).sequences
    /\ assembly_map = _read_assembly(assembly_file, contig_mode).assembly_map

====
